---- MODULE Spec2Model ----
(***************************************************************************)
(* Note edit reconciliation engine of toolbridge-mcp: the line differ, the *)
(* hunk annotator, the hunk reconciler (lib/noteEdits/diff.ts), the        *)
(* in-memory edit session store (lib/noteEdits/sessions.ts) and the tool   *)
(* handlers that drive it (tools/notes/*.ts).                              *)
(*                                                                         *)
(* A text is a sequence of one-character strings; "\n" is the line         *)
(* terminator.  A JavaScript null text is the one-element sequence Null,   *)
(* whose element is no character of any document.                          *)
(***************************************************************************)
EXTENDS Integers, Sequences, FiniteSets, TLC

VARIABLES
    note,        \* the backend's note: [version, title, content]
    sessions,    \* the ids that are keys of the `sessions` Map
    heap,        \* the NoteEditSession object of every id (NoSession if none)
    used,        \* the session ids uuidv4 has generated
    calls,       \* apply_note_edit invocations suspended at an await
    now,         \* Date.now(), in milliseconds
    response,    \* what the handler that ran last returned
    dOriginal,   \* pure-function harness: the original text
    dProposed,   \* pure-function harness: the proposed text
    dHunks,      \* pure-function harness: annotated full hunk sequence
    dDecisions,  \* pure-function harness: decision map (hunk id -> decision)
    dResult      \* pure-function harness: outcome of applyHunkDecisions

vars == <<note, sessions, heap, used, calls, now, response,
          dOriginal, dProposed, dHunks, dDecisions, dResult>>

storeVars == <<note, sessions, heap, used, calls, now, response>>
diffVars == <<dOriginal, dProposed, dHunks, dDecisions, dResult>>

-----------------------------------------------------------------------------
(* Bounds of the model *)

\* longest text, in characters, given to the pure functions
MaxLen == 3
\* most lines of a note or of a proposal, a long unchanged run apart
MaxLines == 2
\* highest note version another client of the backend produces
MaxVersion == 2
\* most times the clock advances
MaxTicks == 3

-----------------------------------------------------------------------------
(* Texts *)

NL == "\n"

\* null (a text field holding no text)
Null == <<"<null>">>

\* String.prototype.split("\n"): the pieces between the terminators
RECURSIVE Split(_)
Split(t) ==
    IF \A i \in 1..Len(t) : t[i] # NL
    THEN <<t>>
    ELSE LET k == CHOOSE i \in 1..Len(t) :
                      t[i] = NL /\ \A j \in 1..(i - 1) : t[j] # NL
         IN  <<SubSeq(t, 1, k - 1)>> \o Split(SubSeq(t, k + 1, Len(t)))

\* Array.prototype.join("\n")
RECURSIVE JoinNL(_)
JoinNL(ls) ==
    IF ls = <<>> THEN <<>>
    ELSE IF Len(ls) = 1 THEN ls[1]
    ELSE ls[1] \o <<NL>> \o JoinNL(Tail(ls))

\* Array.prototype.join(""): the texts one after the other
RECURSIVE Concat(_)
Concat(ts) == IF ts = <<>> THEN <<>> ELSE Head(ts) \o Concat(Tail(ts))

\* Array.prototype.slice(0, n)
SliceFirst(s, n) == SubSeq(s, 1, IF n < Len(s) THEN n ELSE Len(s))

\* Array.prototype.slice(-n); slice(-0) is slice(0), the whole array
SliceLast(s, n) ==
    IF n = 0 \/ n >= Len(s) THEN s ELSE SubSeq(s, Len(s) - n + 1, Len(s))

-----------------------------------------------------------------------------
(* Diff.diffLines of the `diff` package, as computeLineDiff uses it *)

\* the line tokens of a text: every line keeps its terminator, a last line
\* without one is a token of its own, an empty text has no token
RECURSIVE Tokenize(_)
Tokenize(t) ==
    IF t = <<>> THEN <<>>
    ELSE IF \A i \in 1..Len(t) : t[i] # NL THEN <<t>>
    ELSE LET k == CHOOSE i \in 1..Len(t) :
                      t[i] = NL /\ \A j \in 1..(i - 1) : t[j] # NL
         IN  <<SubSeq(t, 1, k)>> \o Tokenize(SubSeq(t, k + 1, Len(t)))

\* length of a longest common subsequence of two token sequences
RECURSIVE LCSLen(_, _)
LCSLen(a, b) ==
    IF a = <<>> \/ b = <<>> THEN 0
    ELSE IF Head(a) = Head(b) THEN 1 + LCSLen(Tail(a), Tail(b))
    ELSE LET l == LCSLen(Tail(a), b)
             r == LCSLen(a, Tail(b))
         IN  IF l >= r THEN l ELSE r

\* a shortest edit script from a to b, one entry per token; where the
\* script is not unique a removal comes before an insertion
RECURSIVE EditScript(_, _)
EditScript(a, b) ==
    IF a = <<>> THEN [i \in 1..Len(b) |-> [op |-> "ins", tok |-> b[i]]]
    ELSE IF b = <<>> THEN [i \in 1..Len(a) |-> [op |-> "del", tok |-> a[i]]]
    ELSE IF Head(a) = Head(b)
         THEN <<[op |-> "eq", tok |-> Head(a)]>> \o EditScript(Tail(a), Tail(b))
    ELSE IF LCSLen(Tail(a), b) >= LCSLen(a, Tail(b))
         THEN <<[op |-> "del", tok |-> Head(a)]>> \o EditScript(Tail(a), b)
         ELSE <<[op |-> "ins", tok |-> Head(b)]>> \o EditScript(a, Tail(b))

\* the change objects: maximal runs of one operation, value the run's
\* tokens joined, count the number of tokens
RECURSIVE Runs(_)
Runs(script) ==
    IF script = <<>> THEN <<>>
    ELSE LET op == script[1].op
             n == IF \A i \in 1..Len(script) : script[i].op = op
                  THEN Len(script)
                  ELSE (CHOOSE i \in 1..Len(script) :
                            script[i].op # op
                            /\ \A j \in 1..(i - 1) : script[j].op = op) - 1
         IN  <<[added |-> op = "ins", removed |-> op = "del",
                value |-> Concat([i \in 1..n |-> script[i].tok]),
                count |-> n]>>
             \o Runs(SubSeq(script, n + 1, Len(script)))

diffLines(original, proposed) ==
    Runs(EditScript(Tokenize(original), Tokenize(proposed)))

-----------------------------------------------------------------------------
(* computeLineDiff, mergeConsecutiveChanges, annotateHunksWithIds *)

\* maxUnchangedLines = 5, the default of computeLineDiff's options
DefaultMaxUnchangedLines == 5

\* a null line number (origStart, origEnd, newStart, newEnd)
NoLine == -1

\* a null hunk id; its only readers take `id ?? ""`
NoId == ""

\* the template literal `... (${n} lines unchanged) ...`, one element of
\* the text (it holds no "\n")
Marker(n) == "... (" \o ToString(n) \o " lines unchanged) ..."

\* a DiffHunk as computeLineDiff builds it: no id, no line range
RawHunk(kind, original, proposed, origLineCount, newLineCount) ==
    [kind |-> kind, original |-> original, proposed |-> proposed,
     id |-> NoId,
     origStart |-> NoLine, origEnd |-> NoLine,
     newStart |-> NoLine, newEnd |-> NoLine,
     origLineCount |-> origLineCount, newLineCount |-> newLineCount]

\* the text an unchanged section is stored with
DisplayText(text, truncateUnchanged, maxUnchangedLines) ==
    LET lines == Split(text)
        half == maxUnchangedLines \div 2
    IN  IF truncateUnchanged /\ text # <<>> /\ Len(lines) > maxUnchangedLines
        THEN JoinNL(SliceFirst(lines, half))
             \o <<NL, Marker(Len(lines) - maxUnchangedLines), NL>>
             \o JoinNL(SliceLast(lines, half))
        ELSE text

\* HunkOfChange counting the lines of an unchanged section in the text it
\* stores
HunkOfChangeCountsDisplayed(change, truncateUnchanged, maxUnchangedLines) ==
    IF ~change.added /\ ~change.removed
    THEN LET displayText ==
                 DisplayText(change.value, truncateUnchanged, maxUnchangedLines)
             lineCount == Len(Split(displayText))
                          - (IF displayText[Len(displayText)] = NL THEN 1 ELSE 0)
         IN  RawHunk("unchanged", displayText, displayText,
                     lineCount, lineCount)
    ELSE IF change.added
    THEN RawHunk("added", <<>>, change.value, 0, change.count)
    ELSE RawHunk("removed", change.value, <<>>, change.count, 0)

\* the hunk pushed for one change object of the diff
HunkOfChange(change, truncateUnchanged, maxUnchangedLines) ==
    IF ~change.added /\ ~change.removed
    THEN LET displayText ==
                 DisplayText(change.value, truncateUnchanged, maxUnchangedLines)
         IN  RawHunk("unchanged", displayText, displayText,
                     change.count, change.count)
    ELSE IF change.added
    THEN RawHunk("added", <<>>, change.value, 0, change.count)
    ELSE RawHunk("removed", change.value, <<>>, change.count, 0)

\* mergeConsecutiveChanges taking the modified hunk's proposed text from the
\* removed hunk
RECURSIVE mergeTakesCurrent(_)
mergeTakesCurrent(hunks) ==
    IF hunks = <<>> THEN <<>>
    ELSE IF hunks[1].kind = "removed" /\ Len(hunks) > 1
            /\ hunks[2].kind = "added"
    THEN <<RawHunk("modified", hunks[1].original, hunks[1].proposed,
                   hunks[1].origLineCount, hunks[2].newLineCount)>>
         \o mergeTakesCurrent(SubSeq(hunks, 3, Len(hunks)))
    ELSE <<hunks[1]>> \o mergeTakesCurrent(Tail(hunks))

\* mergeConsecutiveChanges stepping over the removed hunk only, so that the
\* added hunk it has merged follows the modified hunk
RECURSIVE mergeKeepsAdded(_)
mergeKeepsAdded(hunks) ==
    IF hunks = <<>> THEN <<>>
    ELSE IF hunks[1].kind = "removed" /\ Len(hunks) > 1
            /\ hunks[2].kind = "added"
    THEN <<RawHunk("modified", hunks[1].original, hunks[2].proposed,
                   hunks[1].origLineCount, hunks[2].newLineCount)>>
         \o mergeKeepsAdded(Tail(hunks))
    ELSE <<hunks[1]>> \o mergeKeepsAdded(Tail(hunks))

\* a removed hunk directly followed by an added hunk becomes one modified hunk
RECURSIVE mergeConsecutiveChanges(_)
mergeConsecutiveChanges(hunks) ==
    IF hunks = <<>> THEN <<>>
    ELSE IF hunks[1].kind = "removed" /\ Len(hunks) > 1
            /\ hunks[2].kind = "added"
    THEN <<RawHunk("modified", hunks[1].original, hunks[2].proposed,
                   hunks[1].origLineCount, hunks[2].newLineCount)>>
         \o mergeConsecutiveChanges(SubSeq(hunks, 3, Len(hunks)))
    ELSE <<hunks[1]>> \o mergeConsecutiveChanges(Tail(hunks))

computeLineDiff(original, proposed, truncateUnchanged, maxUnchangedLines) ==
    IF original = <<>> /\ proposed = <<>> THEN <<>>
    ELSE IF original = <<>>
    THEN <<RawHunk("added", <<>>, proposed, 0, Len(Split(proposed)))>>
    ELSE IF proposed = <<>>
    THEN <<RawHunk("removed", original, <<>>, Len(Split(original)), 0)>>
    ELSE LET changes == diffLines(original, proposed)
         IN  mergeConsecutiveChanges(
                 [i \in 1..Len(changes) |->
                     HunkOfChange(changes[i], truncateUnchanged,
                                  maxUnchangedLines)])

\* the value of origLine (side = "orig") or newLine (side = "new") when the
\* loop of annotateHunksWithIds reaches the hunk at position i
RECURSIVE LineBefore(_, _, _)
LineBefore(hunks, i, side) ==
    IF i = 1 THEN 1
    ELSE LineBefore(hunks, i - 1, side)
         + (IF side = "orig" THEN hunks[i - 1].origLineCount
                             ELSE hunks[i - 1].newLineCount)

\* annotateHunksWithIds never advancing its two line counters
annotateRestartsRanges(hunks) ==
    [i \in 1..Len(hunks) |->
        LET hunk == hunks[i]
            origLen == hunk.origLineCount
            newLen == hunk.newLineCount
            hasOrig == hunk.kind # "added" /\ origLen > 0
            hasNew == hunk.kind # "removed" /\ newLen > 0
        IN  [hunk EXCEPT
                !.id = "h" \o ToString(i),
                !.origStart = IF hasOrig THEN 1 ELSE NoLine,
                !.origEnd = IF hasOrig THEN origLen ELSE NoLine,
                !.newStart = IF hasNew THEN 1 ELSE NoLine,
                !.newEnd = IF hasNew THEN newLen ELSE NoLine]]

annotateHunksWithIds(hunks) ==
    [i \in 1..Len(hunks) |->
        LET hunk == hunks[i]
            origLen == hunk.origLineCount
            newLen == hunk.newLineCount
            origLine == LineBefore(hunks, i, "orig")
            newLine == LineBefore(hunks, i, "new")
            hasOrig == hunk.kind # "added" /\ origLen > 0
            hasNew == hunk.kind # "removed" /\ newLen > 0
        IN  [hunk EXCEPT
                !.id = "h" \o ToString(i),
                !.origStart = IF hasOrig THEN origLine ELSE NoLine,
                !.origEnd = IF hasOrig THEN origLine + origLen - 1 ELSE NoLine,
                !.newStart = IF hasNew THEN newLine ELSE NoLine,
                !.newEnd = IF hasNew THEN newLine + newLen - 1 ELSE NoLine]]

\* truncateUnchangedForDisplay: the display truncation applied to hunks that
\* are annotated already
truncateUnchangedForDisplay(hunks, maxLines) ==
    [i \in 1..Len(hunks) |->
        IF hunks[i].kind = "unchanged" /\ hunks[i].original # <<>>
        THEN [hunks[i] EXCEPT
                 !.original = DisplayText(hunks[i].original, TRUE, maxLines),
                 !.proposed = DisplayText(hunks[i].original, TRUE, maxLines)]
        ELSE hunks[i]]

-----------------------------------------------------------------------------
(* applyHunkDecisions *)

\* a HunkDecision
Decision(status, revisedText) == [status |-> status, revisedText |-> revisedText]

\* Map.get: the decision of a hunk id, or undefined
NoDecision == [status |-> "undefined", revisedText |-> Null]
DecisionGet(decisions, hunkId) ==
    IF hunkId \in DOMAIN decisions THEN decisions[hunkId] ELSE NoDecision

\* whether the loop of applyHunkDecisions throws at this hunk
Throws(hunk, decisions) ==
    LET decision == DecisionGet(decisions, hunk.id)
    IN  /\ hunk.kind # "unchanged"
        /\ decision = NoDecision \/ decision.status = "pending"

\* Segment with an accepted removal keeping the removed text
SegmentKeepsRemoved(hunk, decisions) ==
    LET decision == DecisionGet(decisions, hunk.id)
        revised == IF decision.status = "revised" /\ decision.revisedText # Null
                   THEN decision.revisedText ELSE <<>>
    IN  CASE hunk.kind = "unchanged" -> hunk.original
          [] hunk.kind = "added" ->
                IF decision.status = "accepted" THEN hunk.proposed
                ELSE IF decision.status = "rejected" THEN <<>>
                ELSE revised
          [] hunk.kind = "removed" ->
                IF decision.status \in {"accepted", "rejected"} THEN hunk.original
                ELSE revised
          [] OTHER ->
                IF decision.status = "accepted" THEN hunk.proposed
                ELSE IF decision.status = "rejected" THEN hunk.original
                ELSE revised

\* Segment with a rejected modification keeping the proposed text
SegmentRejectKeepsProposed(hunk, decisions) ==
    LET decision == DecisionGet(decisions, hunk.id)
        revised == IF decision.status = "revised" /\ decision.revisedText # Null
                   THEN decision.revisedText ELSE <<>>
    IN  CASE hunk.kind = "unchanged" -> hunk.original
          [] hunk.kind = "added" ->
                IF decision.status = "accepted" THEN hunk.proposed
                ELSE IF decision.status = "rejected" THEN <<>>
                ELSE revised
          [] hunk.kind = "removed" ->
                IF decision.status = "accepted" THEN <<>>
                ELSE IF decision.status = "rejected" THEN hunk.original
                ELSE revised
          [] OTHER ->
                IF decision.status \in {"accepted", "rejected"}
                THEN hunk.proposed
                ELSE revised

\* what one hunk pushes on `segments` (nothing is the empty text)
Segment(hunk, decisions) ==
    LET decision == DecisionGet(decisions, hunk.id)
        revised == IF decision.status = "revised" /\ decision.revisedText # Null
                   THEN decision.revisedText ELSE <<>>
    IN  CASE hunk.kind = "unchanged" -> hunk.original
          [] hunk.kind = "added" ->
                IF decision.status = "accepted" THEN hunk.proposed
                ELSE IF decision.status = "rejected" THEN <<>>
                ELSE revised
          [] hunk.kind = "removed" ->
                IF decision.status = "accepted" THEN <<>>
                ELSE IF decision.status = "rejected" THEN hunk.original
                ELSE revised
          [] OTHER ->
                IF decision.status = "accepted" THEN hunk.proposed
                ELSE IF decision.status = "rejected" THEN hunk.original
                ELSE revised

\* applyHunkDecisions joining the segments with "\n"
applyHunkDecisionsJoinsLines(hunks, decisions) ==
    IF \E i \in 1..Len(hunks) : Throws(hunks[i], decisions)
    THEN LET k == CHOOSE i \in 1..Len(hunks) :
                      /\ Throws(hunks[i], decisions)
                      /\ \A j \in 1..(i - 1) : ~Throws(hunks[j], decisions)
         IN  [ok |-> FALSE, value |-> Null, hunkId |-> hunks[k].id]
    ELSE [ok |-> TRUE,
          value |-> JoinNL([i \in 1..Len(hunks) |-> Segment(hunks[i], decisions)]),
          hunkId |-> NoId]

\* applyHunkDecisions passing over a hunk that has no decision yet
applyHunkDecisionsSkipsUndecided(hunks, decisions) ==
    [ok |-> TRUE,
     value |-> Concat([i \in 1..Len(hunks) |-> Segment(hunks[i], decisions)]),
     hunkId |-> NoId]

\* the returned text, or the id of the hunk the Error names
applyHunkDecisions(hunks, decisions) ==
    IF \E i \in 1..Len(hunks) : Throws(hunks[i], decisions)
    THEN LET k == CHOOSE i \in 1..Len(hunks) :
                      /\ Throws(hunks[i], decisions)
                      /\ \A j \in 1..(i - 1) : ~Throws(hunks[j], decisions)
         IN  [ok |-> FALSE, value |-> Null, hunkId |-> hunks[k].id]
    ELSE [ok |-> TRUE,
          value |-> Concat([i \in 1..Len(hunks) |-> Segment(hunks[i], decisions)]),
          hunkId |-> NoId]

-----------------------------------------------------------------------------
(* The session store: lib/noteEdits/sessions.ts *)

\* SESSION_MAX_AGE_MS
SESSION_MAX_AGE_MS == 60 * 60 * 1000

\* getSession's null
NoSession == [id |-> NoId]

\* HunkState with the proposed text stored on both sides
HunkStateProposedTwice(h) ==
    [id |-> h.id, kind |-> h.kind,
     original |-> h.proposed, proposed |-> h.proposed,
     status |-> IF h.kind = "unchanged" THEN "accepted" ELSE "pending",
     revisedText |-> Null,
     origStart |-> h.origStart, origEnd |-> h.origEnd,
     newStart |-> h.newStart, newEnd |-> h.newEnd]

\* the NoteEditHunkState createSession builds from a DiffHunk
HunkState(h) ==
    [id |-> h.id, kind |-> h.kind,
     original |-> h.original, proposed |-> h.proposed,
     status |-> IF h.kind = "unchanged" THEN "accepted" ELSE "pending",
     revisedText |-> Null,
     origStart |-> h.origStart, origEnd |-> h.origEnd,
     newStart |-> h.newStart, newEnd |-> h.newEnd]

\* the session object createSession stores under sessionId
createSession(sessionId, nt, proposedContent, hunks, createdAt) ==
    [id |-> sessionId,
     noteUid |-> nt.uid,
     baseVersion |-> nt.version,
     title |-> nt.title,
     originalContent |-> nt.content,
     proposedContent |-> proposedContent,
     createdAt |-> createdAt,
     hunks |-> [i \in 1..Len(hunks) |-> HunkState(hunks[i])],
     currentContent |-> Null]

\* sessions.get(editId) ?? null
getSession(editId) == IF editId \in sessions THEN heap[editId] ELSE NoSession

\* currentContent as recomputeCurrentContent leaves it
recomputeCurrentContent(session) ==
    LET anyPending == \E i \in 1..Len(session.hunks) :
                          /\ session.hunks[i].status = "pending"
                          /\ session.hunks[i].kind # "unchanged"
        ids == {session.hunks[i].id : i \in 1..Len(session.hunks)} \ {NoId}
        decisions ==
            [id \in ids |->
                LET k == CHOOSE i \in 1..Len(session.hunks) :
                             /\ session.hunks[i].id = id
                             /\ \A j \in (i + 1)..Len(session.hunks) :
                                    session.hunks[j].id # id
                IN  Decision(session.hunks[k].status,
                             session.hunks[k].revisedText)]
        fullHunks == annotateHunksWithIds(
                         computeLineDiff(session.originalContent,
                                         session.proposedContent,
                                         FALSE, DefaultMaxUnchangedLines))
        result == applyHunkDecisions(fullHunks, decisions)
    IN  IF anyPending THEN Null
        ELSE IF result.ok THEN result.value
        ELSE Null

\* setHunkStatus recomputing the content before it updates the hunk
setHunkStatusRecomputesFirst(session, hunkId, status, revisedText) ==
    LET found == {i \in 1..Len(session.hunks) : session.hunks[i].id = hunkId}
        updated ==
            IF found = {} THEN session.hunks
            ELSE LET k == CHOOSE i \in found : \A j \in found : i <= j
                 IN  [session.hunks EXCEPT
                         ![k].status = status,
                         ![k].revisedText =
                             IF status = "revised" THEN revisedText ELSE Null]
    IN  [session EXCEPT !.hunks = updated,
                        !.currentContent = recomputeCurrentContent(session)]

\* setHunkStatus keeping a revision in the hunk's proposed text
setHunkStatusRevisesProposed(session, hunkId, status, revisedText) ==
    LET found == {i \in 1..Len(session.hunks) : session.hunks[i].id = hunkId}
        updated ==
            IF found = {} THEN session.hunks
            ELSE LET k == CHOOSE i \in found : \A j \in found : i <= j
                 IN  [session.hunks EXCEPT
                         ![k].status = status,
                         ![k].proposed =
                             IF status = "revised" /\ revisedText # Null
                             THEN revisedText ELSE @,
                         ![k].revisedText =
                             IF status = "revised" THEN revisedText ELSE Null]
        after == [session EXCEPT !.hunks = updated]
    IN  [after EXCEPT !.currentContent = recomputeCurrentContent(after)]

\* the session object after setHunkStatus(editId, hunkId, status, revisedText)
\* found it; revisedText is Null when the argument is absent or null
setHunkStatus(session, hunkId, status, revisedText) ==
    LET found == {i \in 1..Len(session.hunks) : session.hunks[i].id = hunkId}
        updated ==
            IF found = {} THEN session.hunks
            ELSE LET k == CHOOSE i \in found : \A j \in found : i <= j
                 IN  [session.hunks EXCEPT
                         ![k].status = status,
                         ![k].revisedText =
                             IF status = "revised" THEN revisedText ELSE Null]
        after == [session EXCEPT !.hunks = updated]
    IN  [after EXCEPT !.currentContent = recomputeCurrentContent(after)]

\* getHunkCounts of a session
CountStatus(session, status) ==
    Cardinality({i \in 1..Len(session.hunks) :
                    /\ session.hunks[i].kind # "unchanged"
                    /\ session.hunks[i].status = status})

getHunkCounts(session) ==
    [pending |-> CountStatus(session, "pending"),
     accepted |-> CountStatus(session, "accepted"),
     rejected |-> CountStatus(session, "rejected"),
     revised |-> CountStatus(session, "revised")]

\* whether cleanupExpiredSessions(maxAgeMs) deletes the session
Expired(session, maxAgeMs) == now - session.createdAt > maxAgeMs

-----------------------------------------------------------------------------
(* Inputs *)

Chars == {"a", "b", NL}

\* every text of at most n characters
TextsUpTo(n) == UNION {[1..k -> Chars] : k \in 0..n}

Line(c) == <<c, NL>>

\* every text of at most n terminated lines "a" or "b"
Bodies(n) ==
    {Concat(ls) : ls \in UNION {[1..k -> {Line("a"), Line("b")}] : k \in 0..n}}

\* a run of lines long enough for the display truncation to cut it
LongRun == Concat([i \in 1..DefaultMaxUnchangedLines |-> Line("a")])

\* note contents and proposals: short texts, and the long run with at
\* most one line under it
NoteDocs == Bodies(MaxLines) \cup {LongRun \o b : b \in Bodies(1)}

\* revised_text arguments
RevisedTexts == {<<"x", NL>>}

\* the values of HunkStatus
Statuses == {"pending", "accepted", "rejected", "revised"}

\* the revisedText argument of setHunkStatus: absent (or null), or a text
RevisedArgs == {Null} \cup RevisedTexts

\* three-line notes that differ in their middle line only
Line3(m) == Line("a") \o Line(m) \o Line("c")
ThreeLineDocs == {Line3(m) : m \in {"b", "x", "y"}}

\* note contents and proposals for the calls of the store's functions: the
\* empty text, a one-line text and the three-line notes
CallDocs == {<<>>, Line("a")} \cup ThreeLineDocs

\* note contents and proposals for the concurrent calls: one and two lines
AsyncDocs == {Line("a"), Line("a") \o Line("b"), Line("b") \o Line("a")}

\* note contents and proposals for the races of apply with the other calls
RaceDocs == {Line("a"), Line("a") \o Line("b")}

\* the tool invocations that may be in flight together
AsyncCallers == {"c1", "c2"}

\* the ids uuidv4 draws from; it never returns one twice
SessionIds == {"s1"}

\* edit_id arguments: the ids of sessions, and one no session ever has
UnknownEditId == "s0"
EditIds == SessionIds \cup {UnknownEditId}

\* hunk_id arguments for a session: its hunks' ids and one it does not have
UnknownHunkId == "h0"
HunkIds(editId) ==
    {UnknownHunkId} \cup
    (IF editId \in sessions
     THEN {heap[editId].hunks[i].id : i \in 1..Len(heap[editId].hunks)}
     ELSE {})

\* the invocations of apply_note_edit that may be in flight together
Callers == {"c1"}

\* the time one clock step takes
TickMs == SESSION_MAX_AGE_MS \div 2 + 1

Idle == [pc |-> "idle"]

\* session objects no Map entry and no suspended handler refers to are gone
Collect(h, live, cs) ==
    LET keep == live \cup {cs[c].edit_id : c \in {d \in DOMAIN cs : cs[d].pc # "idle"}}
    IN  [id \in (DOMAIN h) \cap keep |-> h[id]]

-----------------------------------------------------------------------------
(* The tool handlers: tools/notes/*.ts *)

\* edit_note_ui: fetch the note, diff it against the proposal for display,
\* create the session
edit_note_ui(sessionId, proposed_content) ==
    /\ sessionId \notin used
    /\ LET hunks == annotateHunksWithIds(
                        computeLineDiff(note.content, proposed_content,
                                        TRUE, DefaultMaxUnchangedLines))
           session == createSession(sessionId, note, proposed_content,
                                    hunks, now)
       IN  /\ used' = used \cup {sessionId}
           /\ sessions' = sessions \cup {sessionId}
           /\ heap' = (sessionId :> session) @@ heap
           /\ response' = [op |-> "edit_note_ui", kind |-> "created",
                           edit_id |-> sessionId]
    /\ UNCHANGED <<note, calls, now, diffVars>>

\* the part of accept/reject/revise_note_edit_hunk that touches the store:
\* setHunkStatus, then the not-found reply or the re-rendered session
DecisionHandler(op, edit_id, hunk_id, status, revisedText) ==
    /\ IF getSession(edit_id) = NoSession
       THEN /\ response' = [op |-> op, kind |-> "not_found",
                            edit_id |-> edit_id]
            /\ UNCHANGED heap
       ELSE /\ heap' = [heap EXCEPT ![edit_id] =
                           setHunkStatus(heap[edit_id], hunk_id, status,
                                         revisedText)]
            /\ response' = [op |-> op, kind |-> "session",
                            edit_id |-> edit_id]
    /\ UNCHANGED <<note, sessions, used, calls, now, diffVars>>

accept_note_edit_hunk(edit_id, hunk_id) ==
    DecisionHandler("accept_note_edit_hunk", edit_id, hunk_id, "accepted", Null)

reject_note_edit_hunk(edit_id, hunk_id) ==
    DecisionHandler("reject_note_edit_hunk", edit_id, hunk_id, "rejected", Null)

revise_note_edit_hunk(edit_id, hunk_id, revised_text) ==
    DecisionHandler("revise_note_edit_hunk", edit_id, hunk_id, "revised",
                    revised_text)

\* accept/reject/revise_note_edit_hunk up to `await getBackendAuth()`:
\* setHunkStatus, then the not-found reply or the wait for the note
decision_start(c, op, edit_id, hunk_id, status, revisedText) ==
    /\ calls[c].pc = "idle"
    /\ IF getSession(edit_id) = NoSession
       THEN /\ response' = [op |-> op, kind |-> "not_found",
                            edit_id |-> edit_id]
            /\ UNCHANGED <<heap, calls>>
       ELSE /\ heap' = [heap EXCEPT ![edit_id] =
                           setHunkStatus(heap[edit_id], hunk_id, status,
                                         revisedText)]
            /\ calls' = [calls EXCEPT ![c] =
                            [pc |-> "render", op |-> op, edit_id |-> edit_id,
                             hunk_id |-> hunk_id, status |-> status,
                             revisedText |-> revisedText]]
            /\ UNCHANGED response
    /\ UNCHANGED <<note, sessions, used, now, diffVars>>

\* decision_finish making its decision once more after the wait
decision_finish_decides_again(c) ==
    /\ calls[c].pc = "render"
    /\ LET after == [calls EXCEPT ![c] = Idle]
           edit_id == calls[c].edit_id
       IN  /\ calls' = after
           /\ heap' = Collect([heap EXCEPT ![edit_id] =
                                  setHunkStatus(heap[edit_id], calls[c].hunk_id,
                                                calls[c].status,
                                                calls[c].revisedText)],
                              sessions, after)
           /\ response' = [op |-> calls[c].op, kind |-> "session",
                           edit_id |-> edit_id]
    /\ UNCHANGED <<note, sessions, used, now, diffVars>>

\* accept/reject/revise_note_edit_hunk once getBackendAuth and api.getNote
\* have resolved: the reply rendered from the session object the handler
\* holds
decision_finish(c) ==
    /\ calls[c].pc = "render"
    /\ LET after == [calls EXCEPT ![c] = Idle]
       IN  /\ calls' = after
           /\ heap' = Collect(heap, sessions, after)
           /\ response' = [op |-> calls[c].op, kind |-> "session",
                           edit_id |-> calls[c].edit_id]
    /\ UNCHANGED <<note, sessions, used, now, diffVars>>

\* getBackendAuth or api.getNote rejects: the handler throws, after
\* setHunkStatus has made the decision
decision_fail(c) ==
    /\ calls[c].pc = "render"
    /\ LET after == [calls EXCEPT ![c] = Idle]
       IN  /\ calls' = after
           /\ heap' = Collect(heap, sessions, after)
           /\ response' = [op |-> calls[c].op, kind |-> "error",
                           edit_id |-> calls[c].edit_id]
    /\ UNCHANGED <<note, sessions, used, now, diffVars>>

\* setHunkStatus called as the exported function it is, with any status and
\* the replacement text present or not; the reply records the arguments and
\* whether the call before it was the same call
setHunkStatusCall(edit_id, hunk_id, status, revisedText) ==
    /\ IF getSession(edit_id) = NoSession
       THEN /\ response' = [op |-> "setHunkStatus", kind |-> "not_found",
                            edit_id |-> edit_id]
            /\ UNCHANGED heap
       ELSE LET reply == [op |-> "setHunkStatus", kind |-> "session",
                          edit_id |-> edit_id, hunk_id |-> hunk_id,
                          status |-> status, revisedText |-> revisedText]
            IN  /\ heap' = [heap EXCEPT ![edit_id] =
                               setHunkStatus(heap[edit_id], hunk_id, status,
                                             revisedText)]
                /\ response' =
                       [r \in {"again"} |->
                           \E b \in BOOLEAN :
                               response = [r2 \in {"again"} |-> b] @@ reply]
                       @@ reply
    /\ UNCHANGED <<note, sessions, used, calls, now, diffVars>>

\* `!session.currentContent`
Falsy(text) == text = Null \/ text = <<>>

\* ApplyCheck without the check of the pending count
ApplyCheckSkipsCounts(edit_id) ==
    LET session == getSession(edit_id)
    IN  IF session = NoSession
        THEN [op |-> "apply_note_edit", kind |-> "not_found",
              edit_id |-> edit_id]
        ELSE IF Falsy(session.currentContent)
        THEN [op |-> "apply_note_edit", kind |-> "cannot_compute",
              edit_id |-> edit_id]
        ELSE [op |-> "apply_note_edit", kind |-> "proceed",
              edit_id |-> edit_id]

\* what apply_note_edit answers before its first await, "proceed" if it
\* goes on to the write
ApplyCheck(edit_id) ==
    LET session == getSession(edit_id)
    IN  IF session = NoSession
        THEN [op |-> "apply_note_edit", kind |-> "not_found",
              edit_id |-> edit_id]
        ELSE IF getHunkCounts(session).pending > 0
        THEN [op |-> "apply_note_edit", kind |-> "pending",
              edit_id |-> edit_id,
              pending |-> getHunkCounts(session).pending]
        ELSE IF Falsy(session.currentContent)
        THEN [op |-> "apply_note_edit", kind |-> "cannot_compute",
              edit_id |-> edit_id]
        ELSE [op |-> "apply_note_edit", kind |-> "proceed",
              edit_id |-> edit_id]

\* apply_note_edit up to `await getBackendAuth()`; `seen` keeps the session as
\* the checks read it
apply_note_edit(c, edit_id) ==
    /\ calls[c].pc = "idle"
    /\ IF ApplyCheck(edit_id).kind = "proceed"
       THEN /\ calls' = [calls EXCEPT ![c] =
                            [pc |-> "auth", edit_id |-> edit_id,
                             seen |-> getSession(edit_id)]]
            /\ UNCHANGED response
       ELSE /\ response' = ApplyCheck(edit_id)
            /\ UNCHANGED calls
    /\ UNCHANGED <<note, sessions, heap, used, now, diffVars>>

\* UpdateRequest expecting the version the backend has now
UpdateRequestLatestVersion(session) ==
    [uid |-> session.noteUid, title |-> session.title,
     content |-> session.currentContent, ifMatch |-> note.version]

\* the request api.updateNote sends, built from the session object the
\* handler holds
UpdateRequest(session) ==
    [uid |-> session.noteUid, title |-> session.title,
     content |-> session.currentContent, ifMatch |-> session.baseVersion]

\* apply_note_edit from the resolution of getBackendAuth to the fetch of
\* api.updateNote
apply_send(c) ==
    /\ calls[c].pc = "auth"
    /\ calls' = [calls EXCEPT ![c] =
                    [pc |-> "sent", edit_id |-> calls[c].edit_id,
                     request |-> UpdateRequest(heap[calls[c].edit_id])]]
    /\ UNCHANGED <<note, sessions, heap, used, now, response, diffVars>>

\* the backend's PUT /v1/notes/:uid with If-Match: the write is done when
\* the expected version is the note's, and refused otherwise
backend_put(c) ==
    /\ calls[c].pc = "sent"
    /\ IF calls[c].request.ifMatch = note.version
       THEN /\ note' = [note EXCEPT !.version = note.version + 1,
                                    !.title = calls[c].request.title,
                                    !.content = calls[c].request.content]
            /\ calls' = [calls EXCEPT ![c] =
                            [pc |-> "ok", edit_id |-> calls[c].edit_id]]
       ELSE /\ calls' = [calls EXCEPT ![c] =
                            [pc |-> "error", edit_id |-> calls[c].edit_id,
                             message |-> "conflict"]]
            /\ UNCHANGED note
    /\ UNCHANGED <<sessions, heap, used, now, response, diffVars>>

\* the request fails for another reason (the backend is down, the token is
\* refused): makeRequest throws and nothing is written
backend_error(c) ==
    /\ calls[c].pc = "sent"
    /\ calls' = [calls EXCEPT ![c] =
                    [pc |-> "error", edit_id |-> calls[c].edit_id,
                     message |-> "failed"]]
    /\ UNCHANGED <<note, sessions, heap, used, now, response, diffVars>>

\* apply_finish discarding the session whatever the outcome of the write
apply_finish_always_discards(c) ==
    /\ calls[c].pc \in {"ok", "error"}
    /\ LET after == [calls EXCEPT ![c] = Idle]
           edit_id == calls[c].edit_id
       IN  /\ calls' = after
           /\ sessions' = sessions \ {edit_id}
           /\ heap' = Collect(heap, sessions \ {edit_id}, after)
           /\ IF calls[c].pc = "ok"
              THEN response' = [op |-> "apply_note_edit", kind |-> "success",
                                edit_id |-> edit_id]
              ELSE response' = [op |-> "apply_note_edit",
                                kind |-> "save_failed", edit_id |-> edit_id,
                                message |-> calls[c].message]
    /\ UNCHANGED <<note, used, now, diffVars>>

\* apply_note_edit after api.updateNote settles: discardSession and the
\* success reply, or the catch block's error reply
apply_finish(c) ==
    /\ calls[c].pc \in {"ok", "error"}
    /\ LET after == [calls EXCEPT ![c] = Idle]
           edit_id == calls[c].edit_id
       IN  /\ calls' = after
           /\ IF calls[c].pc = "ok"
              THEN /\ sessions' = sessions \ {edit_id}
                   /\ heap' = Collect(heap, sessions \ {edit_id}, after)
                   /\ response' = [op |-> "apply_note_edit", kind |-> "success",
                                   edit_id |-> edit_id]
              ELSE /\ sessions' = sessions
                   /\ heap' = Collect(heap, sessions, after)
                   /\ response' = [op |-> "apply_note_edit",
                                   kind |-> "save_failed", edit_id |-> edit_id,
                                   message |-> calls[c].message]
    /\ UNCHANGED <<note, used, now, diffVars>>

\* discard_note_edit without the check that the session exists
discard_note_edit_unchecked(edit_id) ==
    /\ sessions' = sessions \ {edit_id}
    /\ heap' = Collect(heap, sessions \ {edit_id}, calls)
    /\ response' = [op |-> "discard_note_edit", kind |-> "discarded",
                    title |-> getSession(edit_id).id]
    /\ UNCHANGED <<note, used, calls, now, diffVars>>

\* discard_note_edit refusing a session that has pending changes
discard_note_edit_resolved_only(edit_id) ==
    /\ IF getSession(edit_id) = NoSession
       THEN /\ response' = [op |-> "discard_note_edit", kind |-> "not_found",
                            edit_id |-> edit_id]
            /\ UNCHANGED <<sessions, heap>>
       ELSE IF getHunkCounts(heap[edit_id]).pending > 0
       THEN /\ response' = [op |-> "discard_note_edit", kind |-> "pending",
                            edit_id |-> edit_id,
                            pending |-> getHunkCounts(heap[edit_id]).pending]
            /\ UNCHANGED <<sessions, heap>>
       ELSE /\ sessions' = sessions \ {edit_id}
            /\ heap' = Collect(heap, sessions \ {edit_id}, calls)
            /\ response' = [op |-> "discard_note_edit", kind |-> "discarded",
                            title |-> heap[edit_id].title]
    /\ UNCHANGED <<note, used, calls, now, diffVars>>

\* discard_note_edit
discard_note_edit(edit_id) ==
    /\ IF getSession(edit_id) = NoSession
       THEN /\ response' = [op |-> "discard_note_edit", kind |-> "not_found",
                            edit_id |-> edit_id]
            /\ UNCHANGED <<sessions, heap>>
       ELSE /\ sessions' = sessions \ {edit_id}
            /\ heap' = Collect(heap, sessions \ {edit_id}, calls)
            /\ response' = [op |-> "discard_note_edit", kind |-> "discarded",
                            title |-> heap[edit_id].title]
    /\ UNCHANGED <<note, used, calls, now, diffVars>>

-----------------------------------------------------------------------------
(* The environment *)

\* another client of the backend rewrites the note
external_update ==
    /\ note.version < MaxVersion
    /\ note' = [note EXCEPT !.version = note.version + 1,
                            !.title = "renamed",
                            !.content = <<"z", NL>>]
    /\ UNCHANGED <<sessions, heap, used, calls, now, response, diffVars>>

\* time passes
Tick ==
    /\ now < MaxTicks * TickMs
    /\ now' = now + TickMs
    /\ UNCHANGED <<note, sessions, heap, used, calls, response, diffVars>>

-----------------------------------------------------------------------------
(* The pure functions, applied to every pair of short texts *)

NoDiff == <<[kind |-> "none"]>>
NoResult == [ok |-> FALSE, value |-> Null, hunkId |-> "unset"]

\* the decision map that gives every non-unchanged hunk the same status
DecideAll(hunks, status) ==
    [id \in {hunks[i].id : i \in {j \in 1..Len(hunks) : hunks[j].kind # "unchanged"}}
        |-> Decision(status, Null)]

\* computeLineDiff with truncation disabled, then annotateHunksWithIds
DiffFull ==
    /\ dHunks = NoDiff
    /\ dHunks' = annotateHunksWithIds(
                     computeLineDiff(dOriginal, dProposed, FALSE,
                                     DefaultMaxUnchangedLines))
    /\ UNCHANGED <<dOriginal, dProposed, dDecisions, dResult, storeVars>>

\* applyHunkDecisions with every non-unchanged hunk given one status
ReconcileAll(status) ==
    /\ dHunks # NoDiff
    /\ dResult = NoResult
    /\ dDecisions' = DecideAll(dHunks, status)
    /\ dResult' = applyHunkDecisions(dHunks, DecideAll(dHunks, status))
    /\ UNCHANGED <<dOriginal, dProposed, dHunks, storeVars>>

\* what a decision map may hold for one hunk: nothing, or a decision of any
\* status, a revision with its text or without
Absent == [status |-> "absent", revisedText |-> Null]
DecisionChoices ==
    {Absent}
    \cup {Decision(st, Null) : st \in Statuses}
    \cup {Decision("revised", t) : t \in RevisedTexts}

\* the decision maps over the ids of a hunk sequence: any choice for a
\* non-unchanged hunk, nothing or a rejection for an unchanged one
DecisionMaps(hunks) ==
    LET ids == {hunks[i].id : i \in 1..Len(hunks)}
        unchanged == {hunks[i].id :
                         i \in {j \in 1..Len(hunks) : hunks[j].kind = "unchanged"}}
        choices == {choice \in [ids -> DecisionChoices] :
                       \A id \in unchanged :
                           choice[id] \in {Absent, Decision("rejected", Null)}}
    IN  {[id \in {j \in ids : choice[j] # Absent} |-> choice[id]] :
            choice \in choices}

\* applyHunkDecisions with any decision map
ReconcileWith(decisions) ==
    /\ dHunks # NoDiff
    /\ dResult = NoResult
    /\ dDecisions' = decisions
    /\ dResult' = applyHunkDecisions(dHunks, decisions)
    /\ UNCHANGED <<dOriginal, dProposed, dHunks, storeVars>>

-----------------------------------------------------------------------------
(* Specifications *)

DiffIdle ==
    /\ dOriginal = <<>>
    /\ dProposed = <<>>
    /\ dHunks = NoDiff
    /\ dDecisions = <<>>
    /\ dResult = NoResult

StoreInit(docs) ==
    /\ note \in {[uid |-> "n1", version |-> 1, title |-> "title", content |-> d] :
                    d \in docs}
    /\ sessions = {}
    /\ heap = <<>>
    /\ used = {}
    /\ calls = [c \in Callers |-> Idle]
    /\ now = 0
    /\ response = [op |-> "none", kind |-> "none"]

Init == StoreInit(NoteDocs) /\ DiffIdle

\* no handler is suspended at an await
Quiet == \A c \in DOMAIN calls : calls[c].pc = "idle"

\* the tools called one at a time (a caller waits for apply_note_edit to
\* answer before its next call), the backend shared with other clients
Next ==
    \/ Quiet /\ \E id \in SessionIds : \E p \in NoteDocs : edit_note_ui(id, p)
    \/ Quiet /\ \E e \in EditIds : \E h \in HunkIds(e) :
                   accept_note_edit_hunk(e, h)
    \/ Quiet /\ \E e \in EditIds : \E h \in HunkIds(e) :
                   reject_note_edit_hunk(e, h)
    \/ Quiet /\ \E e \in EditIds : \E h \in HunkIds(e) :
                   \E t \in RevisedTexts : revise_note_edit_hunk(e, h, t)
    \/ Quiet /\ \E c \in Callers : \E e \in EditIds : apply_note_edit(c, e)
    \/ Quiet /\ \E e \in EditIds : discard_note_edit(e)
    \/ \E c \in Callers : apply_send(c)
    \/ \E c \in Callers : backend_put(c)
    \/ \E c \in Callers : backend_error(c)
    \/ \E c \in Callers : apply_finish(c)
    \/ external_update

Spec == Init /\ [][Next]_vars

\* the same tools on one-line texts, with the clock running
InitClock == StoreInit(Bodies(1)) /\ DiffIdle

NextClock ==
    \/ Quiet /\ \E id \in SessionIds : \E p \in Bodies(1) : edit_note_ui(id, p)
    \/ Quiet /\ \E e \in EditIds : \E h \in HunkIds(e) :
                   accept_note_edit_hunk(e, h)
    \/ Quiet /\ \E e \in EditIds : \E h \in HunkIds(e) :
                   reject_note_edit_hunk(e, h)
    \/ Quiet /\ \E e \in EditIds : \E h \in HunkIds(e) :
                   \E t \in RevisedTexts : revise_note_edit_hunk(e, h, t)
    \/ Quiet /\ \E c \in Callers : \E e \in EditIds : apply_note_edit(c, e)
    \/ Quiet /\ \E e \in EditIds : discard_note_edit(e)
    \/ \E c \in Callers : apply_send(c)
    \/ \E c \in Callers : backend_put(c)
    \/ \E c \in Callers : backend_error(c)
    \/ \E c \in Callers : apply_finish(c)
    \/ Tick

SpecClock == InitClock /\ [][NextClock]_vars

\* what the runtime guarantees whatever the callers do: time passes, and a
\* write that apply_note_edit has started runs to its reply
FairClock ==
    /\ WF_vars(Tick)
    /\ \A c \in Callers :
           /\ WF_vars(apply_send(c))
           /\ WF_vars(backend_put(c) \/ backend_error(c))
           /\ WF_vars(apply_finish(c))

SpecClockFair == SpecClock /\ FairClock

\* the pure functions on every pair of texts of at most MaxLen characters
InitDiff ==
    /\ dOriginal \in TextsUpTo(MaxLen)
    /\ dProposed \in TextsUpTo(MaxLen)
    /\ dHunks = NoDiff
    /\ dDecisions = <<>>
    /\ dResult = NoResult
    /\ note = [uid |-> "n1", version |-> 1, title |-> "title", content |-> <<>>]
    /\ sessions = {}
    /\ heap = <<>>
    /\ used = {}
    /\ calls = [c \in Callers |-> Idle]
    /\ now = 0
    /\ response = [op |-> "none", kind |-> "none"]

NextDiff ==
    \/ DiffFull
    \/ ReconcileAll("accepted")
    \/ ReconcileAll("rejected")

SpecDiff == InitDiff /\ [][NextDiff]_vars

\* the reconciler on every pair of texts of at most MaxLen characters, with
\* every decision map
NextReconcile ==
    \/ DiffFull
    \/ dHunks # NoDiff
          /\ \E decisions \in DecisionMaps(dHunks) : ReconcileWith(decisions)

SpecReconcile == InitDiff /\ [][NextReconcile]_vars

\* setHunkStatus called directly, with the tools that create, apply and
\* discard, on the empty, one-line and three-line notes
InitCalls == StoreInit(CallDocs) /\ DiffIdle

NextCalls ==
    \/ Quiet /\ \E id \in SessionIds : \E p \in CallDocs : edit_note_ui(id, p)
    \/ Quiet /\ \E e \in EditIds : \E h \in HunkIds(e) :
                   \E st \in Statuses : \E t \in RevisedArgs :
                       setHunkStatusCall(e, h, st, t)
    \/ Quiet /\ \E c \in Callers : \E e \in EditIds : apply_note_edit(c, e)
    \/ Quiet /\ \E e \in EditIds : discard_note_edit(e)
    \/ \E c \in Callers : apply_send(c)
    \/ \E c \in Callers : backend_put(c)
    \/ \E c \in Callers : backend_error(c)
    \/ \E c \in Callers : apply_finish(c)

SpecCalls == InitCalls /\ [][NextCalls]_vars

\* two callers whose decisions interleave at the handlers' awaits, on the
\* one- and two-line notes
InitAsync ==
    /\ note \in {[uid |-> "n1", version |-> 1, title |-> "title",
                   content |-> d] : d \in AsyncDocs}
    /\ sessions = {}
    /\ heap = <<>>
    /\ used = {}
    /\ calls = [c \in AsyncCallers |-> Idle]
    /\ now = 0
    /\ response = [op |-> "none", kind |-> "none"]
    /\ DiffIdle

NextAsync ==
    \/ \E id \in SessionIds : \E p \in AsyncDocs : edit_note_ui(id, p)
    \/ \E c \in AsyncCallers : \E e \in EditIds : \E h \in HunkIds(e) :
           decision_start(c, "accept_note_edit_hunk", e, h, "accepted", Null)
    \/ \E c \in AsyncCallers : \E e \in EditIds : \E h \in HunkIds(e) :
           decision_start(c, "reject_note_edit_hunk", e, h, "rejected", Null)
    \/ \E c \in AsyncCallers : \E e \in EditIds : \E h \in HunkIds(e) :
           \E t \in RevisedTexts :
               decision_start(c, "revise_note_edit_hunk", e, h, "revised", t)
    \/ \E c \in AsyncCallers : decision_finish(c)
    \/ \E c \in AsyncCallers : decision_fail(c)
    \/ \E e \in EditIds : discard_note_edit(e)

SpecAsync == InitAsync /\ [][NextAsync]_vars

\* two callers whose apply, decision and discard calls interleave at the
\* handlers' awaits, on a one-line and a two-line note
InitRace ==
    /\ note \in {[uid |-> "n1", version |-> 1, title |-> "title",
                   content |-> d] : d \in RaceDocs}
    /\ sessions = {}
    /\ heap = <<>>
    /\ used = {}
    /\ calls = [c \in AsyncCallers |-> Idle]
    /\ now = 0
    /\ response = [op |-> "none", kind |-> "none"]
    /\ DiffIdle

NextRace ==
    \/ \E id \in SessionIds : \E p \in RaceDocs : edit_note_ui(id, p)
    \/ \E c \in AsyncCallers : \E e \in EditIds : \E h \in HunkIds(e) :
           decision_start(c, "accept_note_edit_hunk", e, h, "accepted", Null)
    \/ \E c \in AsyncCallers : \E e \in EditIds : \E h \in HunkIds(e) :
           decision_start(c, "reject_note_edit_hunk", e, h, "rejected", Null)
    \/ \E c \in AsyncCallers : \E e \in EditIds : \E h \in HunkIds(e) :
           \E t \in RevisedTexts :
               decision_start(c, "revise_note_edit_hunk", e, h, "revised", t)
    \/ \E c \in AsyncCallers : decision_finish(c)
    \/ \E c \in AsyncCallers : decision_fail(c)
    \/ \E c \in AsyncCallers : \E e \in EditIds : apply_note_edit(c, e)
    \/ \E c \in AsyncCallers : apply_send(c)
    \/ \E c \in AsyncCallers : backend_put(c)
    \/ \E c \in AsyncCallers : backend_error(c)
    \/ \E c \in AsyncCallers : apply_finish(c)
    \/ \E e \in EditIds : discard_note_edit(e)

SpecRace == InitRace /\ [][NextRace]_vars

-----------------------------------------------------------------------------
(* Properties *)

\* the number of non-unchanged hunks of a session that are pending
PendingChanged(session) ==
    Cardinality({i \in 1..Len(session.hunks) :
                    /\ session.hunks[i].kind # "unchanged"
                    /\ session.hunks[i].status = "pending"})

\* the number of non-unchanged hunks of a session that are decided
DecidedChanged(session) ==
    Cardinality({i \in 1..Len(session.hunks) :
                    /\ session.hunks[i].kind # "unchanged"
                    /\ session.hunks[i].status # "pending"})

\* the document the hunk decisions of a session stand for: the full hunk
\* sequence of its two contents reconciled with its hunks' decisions
Reconstructed(session) ==
    applyHunkDecisions(
        annotateHunksWithIds(
            computeLineDiff(session.originalContent, session.proposedContent,
                            FALSE, DefaultMaxUnchangedLines)),
        [id \in {session.hunks[i].id : i \in 1..Len(session.hunks)} |->
            LET k == CHOOSE i \in 1..Len(session.hunks) : session.hunks[i].id = id
            IN  Decision(session.hunks[k].status, session.hunks[k].revisedText)])

\* C1: a session with a pending non-unchanged hunk has no resolved content,
\* and apply_note_edit on it answers "pending" with the number of pending
\* non-unchanged hunks, leaves the session in the store and sends nothing.
C1_PendingBlocksApply ==
    /\ \A e \in sessions :
           PendingChanged(heap[e]) >= 1 =>
               /\ heap[e].currentContent = Null
               /\ ApplyCheck(e) = [op |-> "apply_note_edit", kind |-> "pending",
                                   edit_id |-> e,
                                   pending |-> PendingChanged(heap[e])]
    /\ response.kind = "pending" =>
           /\ response.edit_id \in sessions
           /\ response.pending = PendingChanged(heap[response.edit_id])
           /\ response.pending >= 1
           /\ Quiet

\* apply_note_edit was refused on a session with one hunk pending and
\* another decided
C1_Witness ==
    /\ response.kind = "pending"
    /\ response.edit_id \in sessions
    /\ PendingChanged(heap[response.edit_id]) = 1
    /\ DecidedChanged(heap[response.edit_id]) = 1

\* C2: from its creation on, a session none of whose non-unchanged hunks is
\* pending has a resolved content, the document its decisions stand for.
C2_ResolvedWhenNonePending ==
    \A e \in sessions :
        PendingChanged(heap[e]) = 0 =>
            /\ heap[e].currentContent # Null
            /\ Reconstructed(heap[e]).ok
            /\ heap[e].currentContent = Reconstructed(heap[e]).value

\* C3: apply_note_edit goes on to the write for every session whose resolved
\* content is not null, whatever text it is.
C3_ApplyProceedsOnAnyResolvedContent ==
    \A e \in sessions :
        heap[e].currentContent # Null => ApplyCheck(e).kind = "proceed"

\* C4: the full annotated hunk sequence of (original, proposed) reconciled
\* with every non-unchanged hunk accepted is proposed, and with every
\* non-unchanged hunk rejected is original.
C4_RoundTrip ==
    dResult # NoResult =>
        /\ dDecisions = DecideAll(dHunks, "accepted") =>
               dResult = [ok |-> TRUE, value |-> dProposed, hunkId |-> NoId]
        /\ dDecisions = DecideAll(dHunks, "rejected") =>
               dResult = [ok |-> TRUE, value |-> dOriginal, hunkId |-> NoId]

\* a pair with an unchanged and a removed hunk was reconciled, all accepted
C4_Witness ==
    /\ dResult # NoResult
    /\ dResult.value = dProposed
    /\ dProposed # dOriginal
    /\ \E i \in 1..Len(dHunks) : dHunks[i].kind = "removed"
    /\ \E i \in 1..Len(dHunks) : dHunks[i].kind = "unchanged"

\* the texts of one side of a hunk sequence, one after the other
OriginalSide(hunks) == Concat([i \in 1..Len(hunks) |-> hunks[i].original])
ProposedSide(hunks) == Concat([i \in 1..Len(hunks) |-> hunks[i].proposed])

\* C5: the original texts of the full hunk sequence of (original, proposed),
\* in order, make up original, and the proposed texts make up proposed.
C5_Coverage ==
    dHunks # NoDiff =>
        /\ OriginalSide(dHunks) = dOriginal
        /\ ProposedSide(dHunks) = dProposed

\* a pair was diffed into a modified hunk next to an unchanged one
C5_Witness ==
    /\ dHunks # NoDiff
    /\ \E i \in 1..Len(dHunks) : dHunks[i].kind = "modified"
    /\ \E i \in 1..Len(dHunks) : dHunks[i].kind = "unchanged"

NothingAbbreviated(session) ==
    LET full == computeLineDiff(session.originalContent,
                                session.proposedContent,
                                FALSE, DefaultMaxUnchangedLines)
    IN  \A i \in 1..Len(full) :
            full[i].kind = "unchanged" =>
                Len(Split(full[i].original)) <= DefaultMaxUnchangedLines

\* the full annotated hunk sequence of the session's two contents
FullHunks(session) ==
    annotateHunksWithIds(
        computeLineDiff(session.originalContent, session.proposedContent,
                        FALSE, DefaultMaxUnchangedLines))

C7_ExpiredIsNotFound ==
    \A e \in sessions :
        Expired(heap[e], SESSION_MAX_AGE_MS) => getSession(e) = NoSession

\* C8: a decision on a hunk id the session does not have leaves its hunks'
\* statuses and revised texts and its resolved content as they were, and
\* answers with the session.
C8_UnknownHunkIsNoOp ==
    [][\A e \in sessions :
          (\/ accept_note_edit_hunk(e, UnknownHunkId)
           \/ reject_note_edit_hunk(e, UnknownHunkId)
           \/ \E t \in RevisedTexts : revise_note_edit_hunk(e, UnknownHunkId, t))
          => /\ response'.kind = "session"
             /\ heap'[e].hunks = heap[e].hunks
             /\ heap'[e].currentContent = heap[e].currentContent]_vars

\* C9: a write that fails (refused for a version conflict, or for any other
\* reason) changes neither the store nor the note; apply_note_edit then
\* answers with the failure and leaves the session in the store as it was, so
\* that a later lookup finds it and apply_note_edit goes on to the write
\* again.
C9_FailedWriteKeepsSession ==
    [][\A c \in DOMAIN calls : \A e \in SessionIds :
          /\ (calls[c].pc = "sent" /\ calls'[c].pc = "error") =>
                 /\ sessions' = sessions
                 /\ heap' = heap
                 /\ note' = note
          /\ (calls[c].pc = "error" /\ calls'[c].pc = "idle"
                 /\ calls[c].edit_id = e) =>
                 /\ response' = [op |-> "apply_note_edit",
                                 kind |-> "save_failed", edit_id |-> e,
                                 message |-> calls[c].message]
                 /\ e \in sessions'
                 /\ heap'[e] = heap[e]
                 /\ getSession(e)' = heap[e]
                 /\ ApplyCheck(e)'.kind = "proceed"]_vars

\* apply_note_edit answered that the write was refused for a version conflict
C9_Witness ==
    /\ response.kind = "save_failed"
    /\ response.message = "conflict"
    /\ Quiet

\* C10: a session's baseVersion is the note's version when the session is
\* created and never changes; every request apply_note_edit sends expects
\* that version; and the backend overwrites a note only while the note is
\* still as the session found it.
C10_WriteExpectsBaseVersion ==
    [][/\ \A e \in sessions' :
             IF e \in sessions
             THEN heap'[e].baseVersion = heap[e].baseVersion
             ELSE heap'[e].baseVersion = note.version
       /\ \A c \in DOMAIN calls :
             /\ calls'[c].pc = "sent" =>
                    calls'[c].request.ifMatch =
                        heap'[calls'[c].edit_id].baseVersion
             /\ (calls[c].pc = "sent" /\ calls'[c].pc = "ok") =>
                    /\ note.version = heap[calls[c].edit_id].baseVersion
                    /\ note.content = heap[calls[c].edit_id].originalContent
                    /\ note'.content = heap[calls[c].edit_id].currentContent]_vars

\* a write was refused because the note had changed since the session was
\* created
C10_Witness ==
    \E c \in DOMAIN calls :
        /\ calls[c].pc = "error"
        /\ calls[c].message = "conflict"
        /\ note.version > heap[calls[c].edit_id].baseVersion

\* C11: after any decision calls, with any status and the replacement text
\* present or not, a hunk's revisedText is non-null exactly when its status
\* is revised.
C11_RevisedTextIffRevised ==
    \A e \in sessions : \A i \in 1..Len(heap[e].hunks) :
        heap[e].hunks[i].revisedText # Null
            <=> heap[e].hunks[i].status = "revised"

\* C12: in every session, new or after any decision calls, every unchanged
\* hunk has status accepted.
C12_UnchangedStaysAccepted ==
    \A e \in sessions : \A i \in 1..Len(heap[e].hunks) :
        heap[e].hunks[i].kind = "unchanged"
            => heap[e].hunks[i].status = "accepted"

\* the number of lines of a text: its line ends, and one more for a last
\* line without one
NumLines(t) ==
    Cardinality({i \in 1..Len(t) : t[i] = NL})
    + (IF t # <<>> /\ t[Len(t)] # NL THEN 1 ELSE 0)

\* C13: diffed and annotated, an empty original with a non-empty proposed is
\* one added hunk holding proposed, with no original range and the proposed
\* range [1, number of lines of proposed]; an empty proposed with a non-empty
\* original is one removed hunk holding original, with the original range
\* [1, number of lines of original] and no proposed range; two empty texts
\* are no hunk.
C13_EmptySideRanges ==
    dHunks # NoDiff =>
        /\ (dOriginal = <<>> /\ dProposed # <<>>) =>
               /\ Len(dHunks) = 1
               /\ dHunks[1].kind = "added"
               /\ dHunks[1].proposed = dProposed
               /\ dHunks[1].origStart = NoLine /\ dHunks[1].origEnd = NoLine
               /\ dHunks[1].newStart = 1
               /\ dHunks[1].newEnd = NumLines(dProposed)
        /\ (dOriginal # <<>> /\ dProposed = <<>>) =>
               /\ Len(dHunks) = 1
               /\ dHunks[1].kind = "removed"
               /\ dHunks[1].original = dOriginal
               /\ dHunks[1].newStart = NoLine /\ dHunks[1].newEnd = NoLine
               /\ dHunks[1].origStart = 1
               /\ dHunks[1].origEnd = NumLines(dOriginal)
        /\ (dOriginal = <<>> /\ dProposed = <<>>) => dHunks = <<>>

\* the middle lines of the three-line notes
MiddleLines == {"b", "x", "y"}

C15_SameDecisionTwice ==
    (response.op = "setHunkStatus" /\ response.kind = "session") =>
        /\ response.edit_id \in sessions
        /\ setHunkStatus(heap[response.edit_id], response.hunk_id,
                         response.status, response.revisedText)
               = heap[response.edit_id]

\* a revision with its text was made twice in a row on a resolved session
C15_Witness ==
    /\ response.op = "setHunkStatus"
    /\ response.kind = "session"
    /\ response.again
    /\ response.status = "revised"
    /\ response.revisedText # Null
    /\ response.edit_id \in sessions
    /\ heap[response.edit_id].currentContent # Null
    /\ \E i \in 1..Len(heap[response.edit_id].hunks) :
           /\ heap[response.edit_id].hunks[i].id = response.hunk_id
           /\ heap[response.edit_id].hunks[i].kind = "modified"

\* the resolved content the decisions of a session stand for
Resolved(session) ==
    IF PendingChanged(session) > 0 THEN Null
    ELSE IF Reconstructed(session).ok THEN Reconstructed(session).value
    ELSE Null

\* C16: however the decision handlers of two callers interleave, the step on
\* which a handler makes its decision gives the hunk it names that decision,
\* leaves every other hunk as it was and leaves the resolved content the
\* decisions now stand for; and no other step of a handler changes a stored
\* session.
C16_NoLostDecision ==
    [][/\ \A c \in DOMAIN calls :
             (calls[c].pc = "idle" /\ calls'[c].pc = "render") =>
                 LET e == calls'[c].edit_id
                 IN  /\ e \in sessions /\ e \in sessions'
                     /\ Len(heap'[e].hunks) = Len(heap[e].hunks)
                     /\ \A i \in 1..Len(heap[e].hunks) :
                            IF heap[e].hunks[i].id = calls'[c].hunk_id
                            THEN heap'[e].hunks[i] =
                                     [heap[e].hunks[i] EXCEPT
                                         !.status = calls'[c].status,
                                         !.revisedText = calls'[c].revisedText]
                            ELSE heap'[e].hunks[i] = heap[e].hunks[i]
                     /\ heap'[e].currentContent = Resolved(heap'[e])
       /\ (\A c \in DOMAIN calls : ~(calls[c].pc = "idle"
                                        /\ calls'[c].pc = "render")) =>
             \A e \in sessions \cap sessions' : heap'[e] = heap[e]]_vars

\* two handlers are waiting after deciding two different changed hunks of a
\* session, which holds both decisions
C16_Witness ==
    /\ calls["c1"].pc = "render" /\ calls["c2"].pc = "render"
    /\ calls["c1"].edit_id \in sessions
    /\ calls["c2"].edit_id = calls["c1"].edit_id
    /\ calls["c1"].hunk_id # calls["c2"].hunk_id
    /\ LET hs == heap[calls["c1"].edit_id].hunks
       IN  \E i, j \in 1..Len(hs) :
               /\ hs[i].id = calls["c1"].hunk_id /\ hs[i].kind # "unchanged"
               /\ hs[i].status = "rejected"
               /\ hs[j].id = calls["c2"].hunk_id /\ hs[j].kind # "unchanged"
               /\ hs[j].status = "revised"
    /\ heap[calls["c1"].edit_id].currentContent # Null

\* C17: every session is eventually out of the store, whether or not a
\* caller applies or discards it.
C17_EventuallyRemoved ==
    \A e \in SessionIds : (e \in sessions) ~> (e \notin sessions)

\* C18: for a session id that is not in the store (never created, or
\* already applied or discarded) the lookup finds nothing, and a decision,
\* apply or discard call answers not-found for that id, starts no write and
\* changes neither the note nor any stored session.
C18_AbsentIdIsNotFound ==
    [][\A e \in EditIds \ sessions :
          /\ getSession(e) = NoSession
          /\ (\/ \E h \in HunkIds(e) : accept_note_edit_hunk(e, h)
              \/ \E h \in HunkIds(e) : reject_note_edit_hunk(e, h)
              \/ \E h \in HunkIds(e) : \E t \in RevisedTexts :
                     revise_note_edit_hunk(e, h, t)
              \/ \E c \in Callers : apply_note_edit(c, e)
              \/ discard_note_edit(e))
             => /\ response'.kind = "not_found"
                /\ response'.edit_id = e
                /\ note' = note
                /\ calls' = calls
                /\ sessions' = sessions
                /\ heap' = heap]_vars

\* apply_note_edit answered not-found for a session that had been created
C18_Witness ==
    /\ response.op = "apply_note_edit"
    /\ response.kind = "not_found"
    /\ response.edit_id \in used \ sessions

\* C19: discard_note_edit on a stored session, whatever the statuses of its
\* hunks, takes it (and nothing else) out of the store, answers with the
\* session's title, and changes neither the note nor a call in flight; from
\* then on the lookup and apply_note_edit find nothing under that id; and an
\* id that has left the store never comes back.
C19_DiscardRemoves ==
    [][/\ \A e \in sessions :
             discard_note_edit(e) =>
                 /\ sessions' = sessions \ {e}
                 /\ response' = [op |-> "discard_note_edit",
                                 kind |-> "discarded",
                                 title |-> heap[e].title]
                 /\ note' = note
                 /\ calls' = calls
                 /\ getSession(e)' = NoSession
                 /\ ApplyCheck(e)'.kind = "not_found"
       /\ \A e \in used \ sessions : e \notin sessions']_vars

\* a session was discarded after the note had been renamed by someone else:
\* the answer names the title the session had
C19_Witness ==
    /\ response.op = "discard_note_edit"
    /\ response.kind = "discarded"
    /\ response.title = "title"
    /\ note.title = "renamed"
    /\ sessions = {}
    /\ used # {}

\* what the table gives for a kind and a status: which text of the hunk, if
\* any, goes into the result
Table ==
    [added |-> [accepted |-> "proposed", rejected |-> "nothing",
                revised |-> "revisedText"],
     removed |-> [accepted |-> "nothing", rejected |-> "original",
                  revised |-> "revisedText"],
     modified |-> [accepted |-> "proposed", rejected |-> "original",
                   revised |-> "revisedText"]]

\* the contribution of a hunk under a decision map
Contribution(hunk, decisions) ==
    IF hunk.kind = "unchanged" THEN hunk.original
    ELSE LET d == decisions[hunk.id]
             cell == Table[hunk.kind][d.status]
         IN  CASE cell = "proposed" -> hunk.proposed
               [] cell = "original" -> hunk.original
               [] cell = "nothing" -> <<>>
               [] OTHER -> IF d.revisedText = Null THEN <<>> ELSE d.revisedText

\* every non-unchanged hunk has a decision that is not pending
AllDecided(hunks, decisions) ==
    \A i \in 1..Len(hunks) :
        hunks[i].kind # "unchanged" =>
            /\ hunks[i].id \in DOMAIN decisions
            /\ decisions[hunks[i].id].status # "pending"

\* C20: with every non-unchanged hunk decided accepted, rejected or revised,
\* applyHunkDecisions returns the hunks' contributions one after the other
\* with nothing between them: an unchanged hunk's original text whatever the
\* map holds for it, and for the other kinds what the table gives (a
\* revision without text contributing nothing); otherwise it throws.
C20_ReconcilerTable ==
    dResult # NoResult =>
        IF AllDecided(dHunks, dDecisions)
        THEN /\ dResult.ok
             /\ dResult.value =
                    Concat([i \in 1..Len(dHunks) |->
                               Contribution(dHunks[i], dDecisions)])
        ELSE ~dResult.ok

\* a removal was rejected and an addition revised, next to an unchanged hunk
\* the map holds a rejection for
C20_Witness ==
    /\ dResult # NoResult
    /\ dResult.ok
    /\ \E i, j, k \in 1..Len(dHunks) :
           /\ dHunks[i].kind = "removed"
           /\ dDecisions[dHunks[i].id].status = "rejected"
           /\ dHunks[j].kind = "added"
           /\ dDecisions[dHunks[j].id] = Decision("revised", <<"x", NL>>)
           /\ dHunks[k].kind = "unchanged"
           /\ dHunks[k].id \in DOMAIN dDecisions
           /\ dDecisions[dHunks[k].id].status = "rejected"

\* the positions of the non-unchanged hunks a decision map leaves undecided:
\* it has no entry for them, or a pending one
Undecided(hunks, decisions) ==
    {i \in 1..Len(hunks) :
        /\ hunks[i].kind # "unchanged"
        /\ \/ hunks[i].id \notin DOMAIN decisions
           \/ decisions[hunks[i].id].status = "pending"}

\* the session edit_note_ui creates for (original, proposed), its hunks
\* carrying the decisions of the map (a hunk without entry as created)
SessionDecided(original, proposed, decisions) ==
    LET fresh == createSession(
                     "s1",
                     [uid |-> "n1", version |-> 1, title |-> "title",
                      content |-> original],
                     proposed,
                     annotateHunksWithIds(
                         computeLineDiff(original, proposed, TRUE,
                                         DefaultMaxUnchangedLines)),
                     0)
    IN  [fresh EXCEPT !.hunks =
            [i \in 1..Len(fresh.hunks) |->
                IF fresh.hunks[i].id \in DOMAIN decisions
                THEN [fresh.hunks[i] EXCEPT
                         !.status = decisions[fresh.hunks[i].id].status,
                         !.revisedText = decisions[fresh.hunks[i].id].revisedText]
                ELSE fresh.hunks[i]]]

\* C21: when the decision map leaves a non-unchanged hunk undecided,
\* applyHunkDecisions fails, the failure names the first such hunk in hunk
\* order and no text is returned; and the resolved content a session with
\* these decisions is given is null then, the whole reconstruction otherwise.
C21_AllOrNothing ==
    dResult # NoResult =>
        LET undecided == Undecided(dHunks, dDecisions)
        IN  /\ undecided # {} =>
                   /\ ~dResult.ok
                   /\ dResult.value = Null
                   /\ \E k \in undecided :
                          /\ \A j \in undecided : k <= j
                          /\ dResult.hunkId = dHunks[k].id
            /\ recomputeCurrentContent(
                   SessionDecided(dOriginal, dProposed, dDecisions))
                   = IF undecided = {} THEN dResult.value ELSE Null

\* the reconciler failed at a hunk that comes after a decided one: a partial
\* document was there to return
C21_Witness ==
    /\ dResult # NoResult
    /\ ~dResult.ok
    /\ \E i, k \in 1..Len(dHunks) :
           /\ i < k
           /\ dHunks[i].kind # "unchanged"
           /\ dHunks[i].id \in DOMAIN dDecisions
           /\ dDecisions[dHunks[i].id].status = "accepted"
           /\ dHunks[k].id = dResult.hunkId
           /\ dHunks[k].id \notin DOMAIN dDecisions

\* the positions of the hunks that have a line range on a side
Ranged(hunks, side) ==
    {i \in 1..Len(hunks) :
        IF side = "orig" THEN hunks[i].origStart # NoLine
                         ELSE hunks[i].newStart # NoLine}

\* the line range and the line count of a hunk on a side
RangeOf(hunk, side) ==
    IF side = "orig"
    THEN [start |-> hunk.origStart, end |-> hunk.origEnd,
          count |-> hunk.origLineCount, text |-> hunk.original]
    ELSE [start |-> hunk.newStart, end |-> hunk.newEnd,
          count |-> hunk.newLineCount, text |-> hunk.proposed]

\* C22: the annotated hunk at 0-based position i has the id "h"+(i+1), so
\* the ids differ and increase in document order; on each side the line
\* ranges that are not null are 1-based, inclusive and contiguous in hunk
\* order (the first starts at 1, the next at the previous end + 1), each as
\* long as the line count the hunk has on that side (the number of lines of
\* its text there, when the diff was taken of two non-empty texts); an added
\* hunk has no original range and a removed hunk no proposed range.
C22_IdsAndRanges ==
    dHunks # NoDiff =>
        /\ \A i \in 1..Len(dHunks) : dHunks[i].id = "h" \o ToString(i)
        /\ \A i, j \in 1..Len(dHunks) : i # j => dHunks[i].id # dHunks[j].id
        /\ \A side \in {"orig", "new"} :
               LET ranged == Ranged(dHunks, side)
               IN  \A i \in 1..Len(dHunks) :
                       LET r == RangeOf(dHunks[i], side)
                           before == {j \in ranged : j < i}
                       IN  IF i \in ranged
                           THEN /\ r.start >= 1
                                /\ r.end - r.start + 1 = r.count
                                /\ r.count >= 1
                                /\ (dOriginal # <<>> /\ dProposed # <<>>) =>
                                       r.count = NumLines(r.text)
                                /\ before = {} => r.start = 1
                                /\ \A j \in before :
                                       (\A k \in before : k <= j) =>
                                           r.start = RangeOf(dHunks[j], side).end + 1
                           ELSE r.start = NoLine /\ r.end = NoLine
        /\ \A i \in 1..Len(dHunks) :
               /\ dHunks[i].kind = "added" =>
                      dHunks[i].origStart = NoLine /\ dHunks[i].origEnd = NoLine
               /\ dHunks[i].kind = "removed" =>
                      dHunks[i].newStart = NoLine /\ dHunks[i].newEnd = NoLine

\* an added hunk between two unchanged ones: the original range of the third
\* hunk follows that of the first
C22_Witness ==
    /\ dHunks # NoDiff
    /\ Len(dHunks) = 3
    /\ dHunks[2].kind = "added"
    /\ dHunks[1].origEnd = 1
    /\ dHunks[3].origStart = 2
    /\ dHunks[3].newStart = 3

\* C23: the hunk sequence a session created by edit_note_ui stores (the
\* diff with truncation, annotated) and the full sequence recomputed when a
\* decision is made (the diff without truncation, annotated) are equally
\* long and agree at every position in id, kind and line ranges, and in the
\* texts of every hunk that is not unchanged; so once no changed hunk of the
\* session is pending, reconciling the full sequence with the session's
\* decisions does not fail.
C23_DisplayMatchesFull ==
    \A e \in sessions :
        LET stored == heap[e].hunks
            full == FullHunks(heap[e])
        IN  /\ Len(stored) = Len(full)
            /\ \A i \in 1..Len(stored) :
                   /\ <<stored[i].id, stored[i].kind>> = <<full[i].id, full[i].kind>>
                   /\ <<stored[i].origStart, stored[i].origEnd,
                        stored[i].newStart, stored[i].newEnd>>
                          = <<full[i].origStart, full[i].origEnd,
                              full[i].newStart, full[i].newEnd>>
                   /\ stored[i].kind # "unchanged" =>
                          /\ stored[i].original = full[i].original
                          /\ stored[i].proposed = full[i].proposed
            /\ PendingChanged(heap[e]) = 0 => Reconstructed(heap[e]).ok

\* a session that stores an abbreviated unchanged hunk before a changed one,
\* which has been decided
C23_Witness ==
    \E e \in sessions :
        /\ Len(heap[e].hunks) = 2
        /\ heap[e].hunks[1].kind = "unchanged"
        /\ heap[e].hunks[1].original # FullHunks(heap[e])[1].original
        /\ heap[e].hunks[2].kind = "added"
        /\ heap[e].hunks[2].status = "accepted"
        /\ heap[e].currentContent = heap[e].proposedContent

\* the displayed text of an unchanged segment as claimed: abbreviated when
\* it has more than max lines, to its first and last floor(max/2) lines
\* around a marker line that states how many lines are left out
ClaimedDisplay(text, max) ==
    LET lines == Tokenize(text)
        n == Len(lines)
        half == max \div 2
    IN  IF n > max
        THEN Concat(SubSeq(lines, 1, half))
             \o <<Marker(n - 2 * half), NL>>
             \o Concat(SubSeq(lines, n - half + 1, n))
        ELSE text

\* C24: in the hunks a session stores (diffed with truncation enabled), and
\* in the full hunks passed through truncateUnchangedForDisplay, an
\* unchanged hunk of more than maxUnchangedLines lines holds its first and
\* last floor(max/2) lines around one marker line that states the number of
\* lines left out, and every other hunk holds its full text.
C24_TruncationFormat ==
    \A e \in sessions :
        LET stored == heap[e].hunks
            full == FullHunks(heap[e])
            shown == truncateUnchangedForDisplay(full, DefaultMaxUnchangedLines)
        IN  \A i \in 1..Len(full) :
                IF full[i].kind = "unchanged"
                THEN /\ stored[i].original =
                            ClaimedDisplay(full[i].original,
                                           DefaultMaxUnchangedLines)
                     /\ shown[i].original = stored[i].original
                ELSE /\ stored[i].original = full[i].original
                     /\ stored[i].proposed = full[i].proposed
                     /\ shown[i] = full[i]

\* the hunks computeLineDiff holds before its merge step, for two non-empty
\* texts: one for every change object of the diff
UnmergedHunks(original, proposed) ==
    LET changes == diffLines(original, proposed)
    IN  [i \in 1..Len(changes) |->
            HunkOfChange(changes[i], FALSE, DefaultMaxUnchangedLines)]

\* the kind, texts and line counts of a hunk
Body(hunk) ==
    <<hunk.kind, hunk.original, hunk.proposed,
      hunk.origLineCount, hunk.newLineCount>>

\* C25: in the hunks of two non-empty texts no removed hunk is directly
\* followed by an added one; every removed run directly followed by an
\* added run has become one modified hunk with the removed run's text as
\* original and the added run's text as proposed, and every other run is
\* there unchanged, in the order of the runs.
C25_MergeStep ==
    (dHunks # NoDiff /\ dOriginal # <<>> /\ dProposed # <<>>) =>
        LET raw == UnmergedHunks(dOriginal, dProposed)
            pairs == {i \in 1..(Len(raw) - 1) :
                         raw[i].kind = "removed" /\ raw[i + 1].kind = "added"}
            pos(i) == i - Cardinality({p \in pairs : p < i})
        IN  /\ \A i \in 1..(Len(dHunks) - 1) :
                   ~(dHunks[i].kind = "removed" /\ dHunks[i + 1].kind = "added")
            /\ Len(dHunks) = Len(raw) - Cardinality(pairs)
            /\ \A i \in 1..Len(raw) :
                   IF i \in pairs
                   THEN Body(dHunks[pos(i)]) =
                            <<"modified", raw[i].original, raw[i + 1].proposed,
                              raw[i].origLineCount, raw[i + 1].newLineCount>>
                   ELSE (i - 1) \notin pairs =>
                            Body(dHunks[pos(i)]) = Body(raw[i])

\* a removed and an added run after an unchanged one were merged
C25_Witness ==
    /\ dHunks # NoDiff
    /\ Len(dHunks) = 2
    /\ dHunks[1].kind = "unchanged"
    /\ dHunks[2].kind = "modified"
    /\ dHunks[2].original # <<>>
    /\ dHunks[2].proposed # <<>>
    /\ Len(UnmergedHunks(dOriginal, dProposed)) = 3

\* what a session is created with for good: its identity, its two contents
\* and, hunk by hunk, id, kind, texts and line ranges
CreatedWith(session) ==
    <<session.id, session.noteUid, session.baseVersion,
      session.originalContent, session.proposedContent, session.createdAt,
      [i \in 1..Len(session.hunks) |->
          <<session.hunks[i].id, session.hunks[i].kind,
            session.hunks[i].original, session.hunks[i].proposed,
            session.hunks[i].origStart, session.hunks[i].origEnd,
            session.hunks[i].newStart, session.hunks[i].newEnd>>]>>

\* C26: no step changes, of a session that stays in the store, the id, the
\* note's id, the base version, the two contents, the creation time, or the
\* number, order, id, kind, texts or line ranges of its hunks; a step that
\* changes the session at all is a setHunkStatus call on it, which changes
\* only the status and revisedText of the hunk it names and the resolved
\* content.
C26_Frame ==
    [][\A e \in sessions \cap sessions' :
          /\ CreatedWith(heap'[e]) = CreatedWith(heap[e])
          /\ heap'[e] # heap[e] =>
                 /\ response'.op = "setHunkStatus"
                 /\ response'.kind = "session"
                 /\ response'.edit_id = e
                 /\ \A i \in 1..Len(heap[e].hunks) :
                        heap[e].hunks[i].id # response'.hunk_id =>
                            heap'[e].hunks[i] = heap[e].hunks[i]]_vars

\* the addition a session proposes after an unchanged line was revised with
\* a text: the resolved content holds the text, the hunk its proposal
C26_Witness ==
    /\ response.op = "setHunkStatus"
    /\ response.kind = "session"
    /\ response.edit_id \in sessions
    /\ LET session == heap[response.edit_id]
       IN  /\ Len(session.hunks) = 2
           /\ session.hunks[1].kind = "unchanged"
           /\ session.hunks[2].kind = "added"
           /\ session.hunks[2].id = response.hunk_id
           /\ session.hunks[2].status = "revised"
           /\ session.hunks[2].revisedText = <<"x", NL>>
           /\ session.hunks[2].proposed # <<"x", NL>>
           /\ session.currentContent = session.originalContent \o <<"x", NL>>

\* C27: however an apply call interleaves with decision calls on its session,
\* the content of the write it issues is not null and is the reconstruction
\* of the session's decisions at that moment, none of them pending, and the
\* session is then as apply's checks read it.
C27_WriteIsWhatWasChecked ==
    [][\A c \in DOMAIN calls :
          (calls[c].pc = "auth" /\ calls'[c].pc = "sent") =>
              LET session == heap[calls[c].edit_id]
              IN  /\ calls'[c].request.content # Null
                  /\ PendingChanged(session) = 0
                  /\ calls'[c].request.content = Resolved(session)
                  /\ session = calls[c].seen]_vars

\* C28: once discard_note_edit has taken a session out of the store, no
\* apply call that was in flight for it issues its write.
C28_NoWriteAfterDiscard ==
    [][\A c \in DOMAIN calls :
          (/\ calls[c].pc = "auth"
           /\ calls[c].edit_id \notin sessions
           /\ response.op = "discard_note_edit"
           /\ response.kind = "discarded")
              => calls'[c].pc # "sent"]_vars

\* C29: of the apply calls in flight for one session at most one has issued
\* its conditional write, and at most one has had its write done.
C29_AppliedAtMostOnce ==
    \A c, d \in DOMAIN calls :
        (/\ c # d
         /\ calls[c].pc \in {"sent", "ok", "error"}
         /\ calls[d].pc \in {"sent", "ok", "error"})
            => calls[c].edit_id # calls[d].edit_id

\* the latest decision on every hunk of a session: status and revisedText
LatestDecisions(session) ==
    [i \in 1..Len(session.hunks) |->
        Decision(session.hunks[i].status, session.hunks[i].revisedText)]

\* C30: the resolved content of a session depends only on the latest
\* decision on each of its hunks: a call sequence and the sequence that goes
\* one call further, ending with the same status and revisedText on every
\* hunk, leave the same resolved content.
C30_LatestDecisionsOnly ==
    [][\A e \in sessions \cap sessions' :
          LatestDecisions(heap'[e]) = LatestDecisions(heap[e]) =>
              heap'[e].currentContent = heap[e].currentContent]_vars

====
